---- MODULE Spec2Model ----
(***************************************************************************)
(* Model of tools/ggen-cli/src/main.rs: the ggen command line.  One        *)
(* process invocation is: Cli::parse() over the command line, then the     *)
(* match on cli.command (the Sync arm or the Version arm), then return.    *)
(*                                                                         *)
(* Strings that are printed with {:?} (from, to) are sequences of          *)
(* one-character strings so that the Debug escaping can be computed;       *)
(* println! is assumed to succeed (stdout is writable).                    *)
(***************************************************************************)
EXTENDS Integers, Sequences, FiniteSets, TLC

VARIABLES
    argv,       \* the command line of the current invocation (what the user typed)
    pc,         \* "start" (before Cli::parse), "parsed" (before the match), "done"
    cli,        \* the Cli value clap produced, NoCli before parsing
    stdout,     \* the payloads of the println! calls so far, in order
    result,     \* "none" while running, "Ok" (main returned Ok(())), "ClapExit"
    stagesRun,  \* pipeline stages the process has invoked
    target,     \* files present in the target directory
    syncState,  \* paths recorded in the persisted sync state
    prev        \* the previous invocation (argv, stdout, result), <<>> if none

vars == <<argv, pc, cli, stdout, result, stagesRun, target, syncState, prev>>

----------------------------------------------------------------------------
(* Bounds *)

NumPaths == 1

----------------------------------------------------------------------------
(* Values *)

None == <<>>
Some(v) == <<v>>
Opt(S) == {None} \cup {Some(v) : v \in S}

Paths == {"file" \o ToString(i) : i \in 1..NumPaths}

Stages == {"parse", "infer", "render", "generate"}

\* Directory arguments, as character sequences.
DirValues == { <<".">>,
               <<"g","e","n","e","r","a","t","e","d","/">>,
               <<"o","\"","t">> }

\* --mode takes any string (mode: String).
ModeValues == {"full", "incremental", "verify", "fast"}

SyncArgvs == [sub : {"sync"}, from : Opt(DirValues), to : Opt(DirValues),
              mode : Opt(ModeValues), dry_run : BOOLEAN, force : BOOLEAN,
              verbose : BOOLEAN]

\* "version", or no subcommand at all; force = TRUE stands for a stray
\* argument that the subcommand does not define.
OtherArgvs == [sub : {"version", "none"}, from : {None}, to : {None},
               mode : {None}, dry_run : {FALSE}, force : BOOLEAN,
               verbose : {FALSE}]

Argvs == SyncArgvs \cup OtherArgvs

NoCli == [command |-> "None"]

----------------------------------------------------------------------------
(* Formatting *)

\* {:?} on a char inside a str: the quote and the backslash are escaped.
EscapeChar(c) == IF c = "\"" THEN "\\\""
                 ELSE IF c = "\\" THEN "\\\\"
                 ELSE c

RECURSIVE EscapeAll(_)
EscapeAll(s) == IF s = <<>> THEN "" ELSE EscapeChar(Head(s)) \o EscapeAll(Tail(s))

\* {:?} on a String.
DebugString(s) == "\"" \o EscapeAll(s) \o "\""

\* {} on a bool.
DisplayBool(b) == IF b THEN "true" ELSE "false"

\* Option::unwrap_or_else
UnwrapOrElse(o, d) == IF o = None THEN d ELSE o[1]

----------------------------------------------------------------------------
(* Cli::parse *)

ClapAccepts(a) ==
    \/ a.sub = "sync"
    \/ a.sub = "version" /\ ~a.force

ClapParse(a) ==
    IF a.sub = "sync"
    THEN [command |-> "Sync", from |-> a.from, to |-> a.to,
          mode |-> UnwrapOrElse(a.mode, "full"),
          dry_run |-> a.dry_run, force |-> a.force, verbose |-> a.verbose]
    ELSE [command |-> "Version"]

----------------------------------------------------------------------------
(* The Sync arm's output *)

\* Variant: the two default directories are exchanged.
SyncOutputSwappedDefaults(c) ==
    << "ggen sync",
       "  from: " \o DebugString(UnwrapOrElse(c.from, <<"g","e","n","e","r","a","t","e","d","/">>)),
       "  to: " \o DebugString(UnwrapOrElse(c.to, <<".">>)),
       "  mode: " \o c.mode,
       "  dry-run: " \o DisplayBool(c.dry_run),
       "  force: " \o DisplayBool(c.force),
       "  verbose: " \o DisplayBool(c.verbose),
       "\n⚠ ggen ontology compilation not yet implemented",
       "This is a CLI wrapper - core compilation logic pending",
       "\nNext steps:",
       "  1. Implement RDF parser using ggen-core",
       "  2. Implement SPARQL inference",
       "  3. Implement Tera template rendering",
       "  4. Generate code to output directory" >>

\* Variant: verbose prints one more line after the echo.
SyncOutputVerboseExtra(c) ==
    << "ggen sync",
       "  from: " \o DebugString(UnwrapOrElse(c.from, <<".">>)),
       "  to: " \o DebugString(UnwrapOrElse(c.to, <<"g","e","n","e","r","a","t","e","d","/">>)),
       "  mode: " \o c.mode,
       "  dry-run: " \o DisplayBool(c.dry_run),
       "  force: " \o DisplayBool(c.force),
       "  verbose: " \o DisplayBool(c.verbose) >>
    \o (IF c.verbose THEN << "  (verbose output enabled)" >> ELSE <<>>)
    \o << "\n⚠ ggen ontology compilation not yet implemented",
          "This is a CLI wrapper - core compilation logic pending",
          "\nNext steps:",
          "  1. Implement RDF parser using ggen-core",
          "  2. Implement SPARQL inference",
          "  3. Implement Tera template rendering",
          "  4. Generate code to output directory" >>

SyncOutput(c) ==
    << "ggen sync",
       "  from: " \o DebugString(UnwrapOrElse(c.from, <<".">>)),
       "  to: " \o DebugString(UnwrapOrElse(c.to, <<"g","e","n","e","r","a","t","e","d","/">>)),
       "  mode: " \o c.mode,
       "  dry-run: " \o DisplayBool(c.dry_run),
       "  force: " \o DisplayBool(c.force),
       "  verbose: " \o DisplayBool(c.verbose),
       "\n⚠ ggen ontology compilation not yet implemented",
       "This is a CLI wrapper - core compilation logic pending",
       "\nNext steps:",
       "  1. Implement RDF parser using ggen-core",
       "  2. Implement SPARQL inference",
       "  3. Implement Tera template rendering",
       "  4. Generate code to output directory" >>

VersionOutput ==
    << "ggen 5.0.0",
       "Ontology compiler for spec-driven development" >>

----------------------------------------------------------------------------
(* Actions *)

Init ==
    /\ argv \in Argvs
    /\ pc = "start"
    /\ cli = NoCli
    /\ stdout = <<>>
    /\ result = "none"
    /\ stagesRun = {}
    /\ target \in SUBSET Paths
    /\ syncState \in SUBSET Paths
    /\ prev = <<>>

\* let cli = Cli::parse();  -- the command line is accepted
Parse ==
    /\ pc = "start"
    /\ ClapAccepts(argv)
    /\ cli' = ClapParse(argv)
    /\ pc' = "parsed"
    /\ UNCHANGED <<argv, stdout, result, stagesRun, target, syncState, prev>>

\* let cli = Cli::parse();  -- clap rejects the command line and exits
ParseFail ==
    /\ pc = "start"
    /\ ~ClapAccepts(argv)
    /\ pc' = "done"
    /\ result' = "ClapExit"
    /\ UNCHANGED <<argv, cli, stdout, stagesRun, target, syncState, prev>>

\* Variant: the arm starts the pipeline before printing the notice.
SyncArmRunsPipeline ==
    /\ pc = "parsed"
    /\ cli.command = "Sync"
    /\ stdout' = stdout \o SyncOutput(cli)
    /\ stagesRun' = stagesRun \cup {"parse"}
    /\ result' = "Ok"
    /\ pc' = "done"
    /\ UNCHANGED <<argv, cli, target, syncState, prev>>

\* Variant: the arm generates into the target unless dry_run, and force
\* overrides dry_run.
SyncArmForceWrites ==
    /\ pc = "parsed"
    /\ cli.command = "Sync"
    /\ stdout' = stdout \o SyncOutput(cli)
    /\ target' = IF ~cli.dry_run \/ cli.force THEN target \cup Paths ELSE target
    /\ syncState' = IF ~cli.dry_run \/ cli.force THEN syncState \cup Paths ELSE syncState
    /\ result' = "Ok"
    /\ pc' = "done"
    /\ UNCHANGED <<argv, cli, stagesRun, prev>>

\* Variant: the arm rejects a mode it does not know.
SyncArmRejectsMode ==
    /\ pc = "parsed"
    /\ cli.command = "Sync"
    /\ stdout' = stdout \o SyncOutput(cli)
    /\ result' = IF cli.mode \in {"full", "incremental", "verify"} THEN "Ok" ELSE "Err"
    /\ pc' = "done"
    /\ UNCHANGED <<argv, cli, stagesRun, target, syncState, prev>>

\* Commands::Sync { .. } => { println!...; Ok(()) }
SyncArm ==
    /\ pc = "parsed"
    /\ cli.command = "Sync"
    /\ stdout' = stdout \o SyncOutput(cli)
    /\ result' = "Ok"
    /\ pc' = "done"
    /\ UNCHANGED <<argv, cli, stagesRun, target, syncState, prev>>

\* Commands::Version => { println!...; Ok(()) }
VersionArm ==
    /\ pc = "parsed"
    /\ cli.command = "Version"
    /\ stdout' = stdout \o VersionOutput
    /\ result' = "Ok"
    /\ pc' = "done"
    /\ UNCHANGED <<argv, cli, stagesRun, target, syncState, prev>>

\* The program is invoked a second time over the same directories, with
\* any mode and flags; the finished invocation is remembered in prev.
Relaunch ==
    /\ pc = "done"
    /\ prev = <<>>
    /\ \E a \in Argvs :
          /\ a.sub = argv.sub /\ a.from = argv.from /\ a.to = argv.to
          /\ argv' = a
    /\ prev' = << [argv |-> argv, stdout |-> stdout, result |-> result] >>
    /\ pc' = "start"
    /\ cli' = NoCli
    /\ stdout' = <<>>
    /\ result' = "none"
    /\ stagesRun' = {}
    /\ UNCHANGED <<target, syncState>>

Next == Parse \/ ParseFail \/ SyncArm \/ VersionArm

Spec == Init /\ [][Next]_vars

\* main is a sequential program: once parsed, the matching arm runs.
FairSpec == Spec /\ WF_vars(SyncArm) /\ WF_vars(VersionArm)

NextPair == Next \/ Relaunch

PairSpec == Init /\ [][NextPair]_vars

TypeOK ==
    /\ argv \in Argvs
    /\ pc \in {"start", "parsed", "done"}
    /\ result \in {"none", "Ok", "ClapExit"}
    /\ cli \in {NoCli} \cup {ClapParse(a) : a \in Argvs}
    /\ stdout \in Seq(STRING)
    /\ stagesRun \subseteq Stages
    /\ target \subseteq Paths
    /\ syncState \subseteq Paths

----------------------------------------------------------------------------
(* Properties *)

ValidModes == {"full", "incremental", "verify"}

SyncDone == pc = "done" /\ argv.sub = "sync"

\* The six echo lines expected for a command line, from what was typed.
ExpectedEcho(a) ==
    << "  from: " \o DebugString(IF a.from = None THEN <<".">> ELSE a.from[1]),
       "  to: " \o DebugString(IF a.to = None
                               THEN <<"g","e","n","e","r","a","t","e","d","/">>
                               ELSE a.to[1]),
       "  mode: " \o (IF a.mode = None THEN "full" ELSE a.mode[1]),
       "  dry-run: " \o (IF a.dry_run THEN "true" ELSE "false"),
       "  force: " \o (IF a.force THEN "true" ELSE "false"),
       "  verbose: " \o (IF a.verbose THEN "true" ELSE "false") >>

NotImplementedNotice ==
    << "\n⚠ ggen ontology compilation not yet implemented",
       "This is a CLI wrapper - core compilation logic pending",
       "\nNext steps:",
       "  1. Implement RDF parser using ggen-core",
       "  2. Implement SPARQL inference",
       "  3. Implement Tera template rendering",
       "  4. Generate code to output directory" >>

\* C1: a finished sync invocation, whatever its flags, has run no pipeline
\* stage (no parsing, inference, rendering or generation) and has printed
\* exactly: the header, the echo of the received parameters, the
\* not-yet-implemented notice.
C1_SyncIsStub ==
    SyncDone =>
        /\ stagesRun = {}
        /\ stdout = <<"ggen sync">> \o ExpectedEcho(argv) \o NotImplementedNotice

C1_Witness ==
    /\ SyncDone
    /\ argv.from # None /\ argv.to # None /\ argv.mode = Some("incremental")
    /\ argv.force /\ argv.verbose /\ ~argv.dry_run
    /\ Len(stdout) = 14

\* C2: the step of a sync invocation with dry_run set, or with mode verify,
\* leaves the target directory and the persisted sync state as they were,
\* whatever force and the other flags are.
C2_DryRunVerifyFrame ==
    [][(pc = "parsed" /\ cli.command = "Sync"
            /\ (cli.dry_run \/ cli.mode = "verify"))
        => (target' = target /\ syncState' = syncState)]_vars

C2_Witness ==
    /\ SyncDone
    /\ cli.dry_run /\ cli.force
    /\ target # {} /\ syncState # {}
    /\ result = "Ok"

C2_WitnessVerify ==
    /\ SyncDone
    /\ cli.mode = "verify" /\ ~cli.dry_run /\ cli.force
    /\ target # {}

\* C4 (as claimed): a sync invocation that got past argument parsing has a
\* mode among full, incremental and verify, and the mode is full when
\* --mode was not given.
C4_ModeIsValid ==
    (pc \in {"parsed", "done"} /\ cli.command = "Sync") =>
        /\ cli.mode \in ValidModes
        /\ (argv.mode = None => cli.mode = "full")

C8_WitnessVersion ==
    /\ pc = "done" /\ cli.command = "Version" /\ result = "Ok"

\* C9: in a finished sync invocation the from line shows the --from value
\* when one was given and "." otherwise, and the to line shows the --to
\* value when one was given and "generated/" otherwise.
C9_ReportedDirs ==
    SyncDone =>
        /\ stdout[2] = "  from: " \o
              (IF argv.from = None THEN "\".\"" ELSE DebugString(argv.from[1]))
        /\ stdout[3] = "  to: " \o
              (IF argv.to = None THEN "\"generated/\"" ELSE DebugString(argv.to[1]))

C9_Witness ==
    /\ SyncDone
    /\ argv.from = None
    /\ argv.to = Some(<<".">>)
    /\ stdout[3] = "  to: \".\""

C9_WitnessGiven ==
    /\ SyncDone
    /\ argv.from = Some(<<"g","e","n","e","r","a","t","e","d","/">>)
    /\ argv.to = None

\* The flags of C10 and the println! that echoes each.
FlagNames == {"mode", "dry_run", "force", "verbose"}
FlagLine == [mode |-> 4, dry_run |-> 5, force |-> 6, verbose |-> 7]
DiffFlags(a, b) == {f \in FlagNames : a[f] # b[f]}

\* C10: two sync invocations whose command lines differ in exactly one of
\* mode, dry_run, force, verbose print the same lines except for the line
\* that echoes that flag, end with the same result, and the second one has
\* no other effect (no stage run).
C10_FlagsOnlyEchoed ==
    (/\ pc = "done" /\ prev # <<>>
     /\ argv.sub = "sync" /\ prev[1].argv.sub = "sync"
     /\ argv.from = prev[1].argv.from /\ argv.to = prev[1].argv.to
     /\ Cardinality(DiffFlags(argv, prev[1].argv)) = 1)
    =>
        LET f == CHOOSE g \in FlagNames : g \in DiffFlags(argv, prev[1].argv)
        IN  /\ Len(stdout) = Len(prev[1].stdout)
            /\ \A i \in 1..Len(stdout) :
                  i # FlagLine[f] => stdout[i] = prev[1].stdout[i]
            /\ result = prev[1].result
            /\ stagesRun = {}

C10_Witness ==
    /\ pc = "done" /\ prev # <<>>
    /\ argv.sub = "sync" /\ prev[1].argv.sub = "sync"
    /\ DiffFlags(argv, prev[1].argv) = {"verbose"}
    /\ argv.verbose
    /\ stdout[7] # prev[1].stdout[7]

====
